---- MODULE Spec2Model ----
(***************************************************************************)
(* AP-Help sync server (src/server.js: Express handlers over one lowdb     *)
(* JSON document) and the browser-side sync helpers                       *)
(* (src/unnamed/part_000).                                                 *)
(*                                                                         *)
(* A request is handled in the steps the event loop can interleave:        *)
(*   arrive  - the synchronous body validation, then db.read() fetches the *)
(*             document that is on disk;                                   *)
(*   handle  - db.data becomes that document, the handler looks up and     *)
(*             mutates it and persist() serialises it (all synchronous);   *)
(*   land    - the serialised document replaces the file (writes land in   *)
(*             the order persist() was called), the handler answers;       *)
(*   return  - the helper that made the call merges the answer into        *)
(*             window.appData and mirrors it into localStorage.            *)
(* Between the resolution of db.read() and the call of persist() a handler  *)
(* does not await, so no other handler runs in between: db.data is the     *)
(* document the handler itself fetched.                                    *)
(*                                                                         *)
(* Identifiers, e-mails and titles are JSON strings; "" stands for a field *)
(* the body does not carry.  nanoid() is a fresh identifier per call.      *)
(* averageRating is kept as an exact fraction.  Left out: the fields no    *)
(* handler reads (icon, notes, links, createdAt), POST /api/auth/login and *)
(* the helpers signupRemote and loginRemote, which touch neither the       *)
(* document nor window.appData.                                            *)
(***************************************************************************)
EXTENDS Integers, Sequences, FiniteSets, TLC

VARIABLES file, wq, reqs, appData, mirror

vars == <<file, wq, reqs, appData, mirror>>

(* ---------------------------- bounds ----------------------------------- *)

\* HTTP requests made in one run of the server specification
MaxReq == 2

\* helper calls made in one run of the client specification
MaxCalls == 2

(* --------------------------- JS helpers -------------------------------- *)

\* "" models undefined / a missing body field; !x is true of it
Falsy(x) == x = ""

\* !rating is true of the number 0
FalsyNumber(n) == n = 0

\* no value yet
Null == [null |-> TRUE]

\* Array.prototype.find / findIndex over the outcomes of the test on each
\* element: the first index that passes, 0 if none
FindIndex(passes) ==
  IF \E i \in DOMAIN passes : passes[i]
  THEN CHOOSE i \in DOMAIN passes : passes[i] /\ \A j \in 1..(i - 1) : ~passes[j]
  ELSE 0

\* the elements of an array
Range(s) == { s[i] : i \in 1..Len(s) }

\* Object.assign(target, source)
ObjectAssign(target, source) ==
  [f \in DOMAIN target \cup DOMAIN source |->
     IF f \in DOMAIN source THEN source[f] ELSE target[f]]

\* ratings.reduce((s, r) => s + r.rating, 0)
RECURSIVE Total(_)
Total(ratings) ==
  IF ratings = <<>> THEN 0 ELSE Head(ratings).rating + Total(Tail(ratings))

Abs(n) == IF n < 0 THEN -n ELSE n

RECURSIVE Gcd(_, _)
Gcd(a, b) == IF b = 0 THEN a ELSE Gcd(b, a % b)

\* total / length as an exact number: a fraction in lowest terms.
\* 0 / 0 is NaN, written [num |-> 0, den |-> 0].
Quotient(total, length) ==
  IF length = 0 THEN [num |-> 0, den |-> 0]
  ELSE LET g == Gcd(Abs(total), length)
       IN [num |-> total \div g, den |-> length \div g]

\* the literal 0 of a new note's averageRating
Zero == [num |-> 0, den |-> 1]

(* ------------------------------ store ---------------------------------- *)

\* initDb: the three example courses written when the document has none
SeedCourses ==
  << [id |-> "c1", title |-> "AP Calculus AB", description |-> "Master differential and integral calculus"],
     [id |-> "c2", title |-> "AP Physics 1", description |-> "Mechanics & waves"],
     [id |-> "c3", title |-> "AP Chemistry", description |-> "Chemistry principles"] >>

\* initDb: the document of a first start
EmptyDb ==
  [courses |-> SeedCourses, users |-> <<>>, communityNotes |-> <<>>,
   analytics |-> [sessions |-> <<>>]]

\* nanoid(): one fresh identifier for each request that asks for one
nanoid(r) == <<"id1", "id2", "id3", "id4", "id5", "id6", "id7", "id8">>[r]

\* res.status(code).json(body) without a write
Answer(data, status, body) ==
  [data |-> data, write |-> FALSE, status |-> status, body |-> body]

\* await persist(); res.json(body)
Persist(data, body) ==
  [data |-> data, write |-> TRUE, status |-> 200, body |-> body]

Error(msg) == [error |-> msg]

(* ----------------------- handlers (after db.read()) -------------------- *)

\* GET /api/data
GetData(data) ==
  LET users == [i \in DOMAIN data.users |->
                  [id |-> data.users[i].id, name |-> data.users[i].name,
                   email |-> data.users[i].email]]
  IN Answer(data, 200,
            [courses |-> data.courses, communityNotes |-> data.communityNotes,
             users |-> users, analytics |-> data.analytics])

\* POST /api/courses
PostCourses(body, data, newId) ==
  LET course == [id |-> newId, title |-> body.title, description |-> body.description]
  IN Persist([data EXCEPT !.courses = Append(@, course)], course)

\* PUT /api/courses/:id
PutCourses(id, body, data) ==
  LET idx == FindIndex([i \in DOMAIN data.courses |-> data.courses[i].id = id])
      course == ObjectAssign(data.courses[idx], body)
  IN IF idx = 0 THEN Answer(data, 404, Error("Not found"))
     ELSE Persist([data EXCEPT !.courses[idx] = course], course)

\* GET /api/courses/:id
GetCourses(id, data) ==
  LET idx == FindIndex([i \in DOMAIN data.courses |-> data.courses[i].id = id])
  IN IF idx = 0 THEN Answer(data, 404, Error("Not found"))
     ELSE Answer(data, 200, data.courses[idx])

\* a slip: the author is not looked up before the note is appended
PostNotesAnyAuthor(body, data, newId) ==
  LET idx == FindIndex([i \in DOMAIN data.users |-> data.users[i].id = body.authorId])
      note == [id |-> newId, courseId |-> body.courseId, title |-> body.title,
               content |-> body.content,
               author |-> IF idx = 0 THEN "" ELSE data.users[idx].name,
               authorId |-> body.authorId, downloads |-> 0, ratings |-> <<>>,
               averageRating |-> Zero]
  IN Persist([data EXCEPT !.communityNotes = Append(@, note)], note)

\* POST /api/notes
PostNotes(body, data, newId) ==
  LET idx == FindIndex([i \in DOMAIN data.users |-> data.users[i].id = body.authorId])
      note == [id |-> newId, courseId |-> body.courseId, title |-> body.title,
               content |-> body.content, author |-> data.users[idx].name,
               authorId |-> body.authorId, downloads |-> 0, ratings |-> <<>>,
               averageRating |-> Zero]
  IN IF idx = 0 THEN Answer(data, 400, Error("Invalid author"))
     ELSE Persist([data EXCEPT !.communityNotes = Append(@, note)], note)

\* a slip: the permission test is left out
PutNotesNoPermission(id, body, data) ==
  LET idx == FindIndex([i \in DOMAIN data.communityNotes |-> data.communityNotes[i].id = id])
      old == data.communityNotes[idx]
      note == [old EXCEPT !.title = IF Falsy(body.title) THEN @ ELSE body.title,
                          !.content = IF Falsy(body.content) THEN @ ELSE body.content]
  IN IF idx = 0 THEN Answer(data, 404, Error("Note not found"))
     ELSE Persist([data EXCEPT !.communityNotes[idx] = note], note)

\* PUT /api/notes/:id
PutNotes(id, body, data) ==
  LET idx == FindIndex([i \in DOMAIN data.communityNotes |-> data.communityNotes[i].id = id])
      old == data.communityNotes[idx]
      note == [old EXCEPT !.title = IF Falsy(body.title) THEN @ ELSE body.title,
                          !.content = IF Falsy(body.content) THEN @ ELSE body.content]
  IN IF idx = 0 THEN Answer(data, 404, Error("Note not found"))
     ELSE IF old.authorId # body.authorId /\ ~body.forceDev
          THEN Answer(data, 403, Error("Not allowed"))
          ELSE Persist([data EXCEPT !.communityNotes[idx] = note], note)

\* DELETE /api/notes/:id
DeleteNotes(id, body, data) ==
  LET Other(n) == n.id # id
      idx == FindIndex([i \in DOMAIN data.communityNotes |-> data.communityNotes[i].id = id])
  IN IF idx = 0 THEN Answer(data, 404, Error("Not found"))
     ELSE IF ~body.forceDev /\ data.communityNotes[idx].authorId # body.authorId
          THEN Answer(data, 403, Error("Not allowed"))
          ELSE Persist([data EXCEPT !.communityNotes = SelectSeq(@, Other)],
                       [success |-> TRUE])

\* a slip: the rating is pushed without looking for the user's entry
UpsertAlwaysPush(ratings, userId, rating) ==
  Append(ratings, [userId |-> userId, rating |-> rating])

\* the upsert of a rating, shared by the server and rateRemoteNote
Upsert(ratings, userId, rating) ==
  LET existing == FindIndex([i \in DOMAIN ratings |-> ratings[i].userId = userId])
  IN IF existing # 0 THEN [ratings EXCEPT ![existing].rating = rating]
     ELSE Append(ratings, [userId |-> userId, rating |-> rating])

\* note.averageRating = total / note.ratings.length
Average(ratings) == Quotient(Total(ratings), Len(ratings))

\* a slip: the average is taken before the rating is stored
PostRateStaleAverage(id, body, data) ==
  LET idx == FindIndex([i \in DOMAIN data.communityNotes |-> data.communityNotes[i].id = id])
      ratings == Upsert(data.communityNotes[idx].ratings, body.userId, body.rating)
      average == IF data.communityNotes[idx].ratings = <<>> THEN Zero
                 ELSE Average(data.communityNotes[idx].ratings)
  IN IF idx = 0 THEN Answer(data, 404, Error("Note not found"))
     ELSE Persist([data EXCEPT !.communityNotes[idx].ratings = ratings,
                               !.communityNotes[idx].averageRating = average],
                  [averageRating |-> average, ratingsCount |-> Len(ratings)])

\* POST /api/notes/:id/rate
PostRate(id, body, data) ==
  LET idx == FindIndex([i \in DOMAIN data.communityNotes |-> data.communityNotes[i].id = id])
      ratings == Upsert(data.communityNotes[idx].ratings, body.userId, body.rating)
      average == Average(ratings)
  IN IF idx = 0 THEN Answer(data, 404, Error("Note not found"))
     ELSE Persist([data EXCEPT !.communityNotes[idx].ratings = ratings,
                               !.communityNotes[idx].averageRating = average],
                  [averageRating |-> average, ratingsCount |-> Len(ratings)])

\* a slip: the e-mail is not looked up before the user is appended
PostSignupAnyEmail(body, data, newId) ==
  LET user == [id |-> newId, email |-> body.email, password |-> body.password,
               name |-> body.name]
  IN Persist([data EXCEPT !.users = Append(@, user)],
             [id |-> user.id, email |-> user.email, name |-> user.name])

\* POST /api/auth/signup
PostSignup(body, data, newId) ==
  LET user == [id |-> newId, email |-> body.email, password |-> body.password,
               name |-> body.name]
      existing == FindIndex([i \in DOMAIN data.users |-> data.users[i].email = body.email])
  IN IF existing # 0 THEN Answer(data, 400, Error("Email exists"))
     ELSE Persist([data EXCEPT !.users = Append(@, user)],
                  [id |-> user.id, email |-> user.email, name |-> user.name])

(* ------------------------- request life cycle -------------------------- *)

\* A request arrives.  The handler's first lines check the body; a body that
\* passes makes it call db.read(), which fetches the document on disk.
Arrive(op, id, body, helper, missing, limit) ==
  /\ Len(reqs) < limit
  /\ reqs' = Append(reqs,
        IF missing # ""
        THEN [op |-> op, id |-> id, body |-> body, helper |-> helper,
              pc |-> "answered", data |-> Null, status |-> 400, res |-> Error(missing),
              outcome |-> ""]
        ELSE [op |-> op, id |-> id, body |-> body, helper |-> helper,
              pc |-> "read", data |-> file, status |-> 0, res |-> Null, outcome |-> ""])
  /\ UNCHANGED <<file, wq, appData, mirror>>

\* db.read() resolves: the handler runs on the document it fetched, up to
\* its answer or to the call of persist(), which serialises the document.
Handle(r, op, out) ==
  /\ reqs[r].op = op
  /\ reqs[r].pc = "read"
  /\ reqs' = [reqs EXCEPT ![r].pc = IF out.write THEN "write" ELSE "answered",
                          ![r].status = out.status,
                          ![r].res = out.body]
  /\ wq' = IF out.write THEN Append(wq, [r |-> r, data |-> out.data]) ELSE wq
  /\ UNCHANGED <<file, appData, mirror>>

\* persist(): the oldest pending write replaces the file; its handler answers
persist ==
  /\ wq # <<>>
  /\ file' = Head(wq).data
  /\ wq' = Tail(wq)
  /\ reqs' = [reqs EXCEPT ![Head(wq).r].pc = "answered"]
  /\ UNCHANGED <<appData, mirror>>

(* ------------------------------ inputs --------------------------------- *)

UserA == [id |-> "u1", email |-> "a@b.com", password |-> "x", name |-> "A"]
UserB == [id |-> "u2", email |-> "c@d.com", password |-> "y", name |-> "B"]

Note1 ==
  [id |-> "n1", courseId |-> "c1", title |-> "T", content |-> "C", author |-> "A",
   authorId |-> "u1", downloads |-> 0, ratings |-> <<>>, averageRating |-> Zero]

\* a document left by an earlier run: two users signed up, one wrote a note
UsedDb == [EmptyDb EXCEPT !.users = <<UserA, UserB>>, !.communityNotes = <<Note1>>]

CourseBodies ==
  { [title |-> t, description |-> "D"] : t \in {"", "T"} }

CourseIds == {"c1", "id1"}

CourseUpdates == { [id |-> "c2"], [id |-> "id1"], [title |-> "T2"] }

NoteBodies ==
  { [courseId |-> "c1", title |-> "T", content |-> "C", authorId |-> a] :
      a \in {"", "u1", "id1", "zz"} }

NoteIds == {"n1"}

NoteEdits ==
  { [title |-> e[1], content |-> e[2], authorId |-> a, forceDev |-> f] :
      e \in {<<"T2", "">>, <<"", "C2">>}, a \in {"u1", "u2"}, f \in BOOLEAN }

NoteDeletes ==
  { [authorId |-> a, forceDev |-> f] : a \in {"u1", "u2"}, f \in BOOLEAN }

Ratings ==
  { [userId |-> u, rating |-> n] : u \in {"u1", "u2"}, n \in {3, 5} }
  \cup { [userId |-> "", rating |-> 3], [userId |-> "u1", rating |-> 0] }

Signups ==
  { [email |-> e, password |-> "p", name |-> "N"] : e \in {"", "a@b.com", "n@e.w"} }

(* --------------------- the handlers' first lines ----------------------- *)

MissingCourses(body) ==
  IF Falsy(body.title) \/ Falsy(body.description) THEN "Missing title/description" ELSE ""

MissingNotes(body) ==
  IF Falsy(body.courseId) \/ Falsy(body.title) \/ Falsy(body.content) \/ Falsy(body.authorId)
  THEN "Missing fields" ELSE ""

MissingRate(body) ==
  IF Falsy(body.userId) \/ FalsyNumber(body.rating) THEN "Missing userId or rating" ELSE ""

MissingSignup(body) ==
  IF Falsy(body.email) \/ Falsy(body.password) \/ Falsy(body.name)
  THEN "Missing fields" ELSE ""

(* ------------------------ server: one request -------------------------- *)

get_data == Arrive("GET /api/data", "", Null, "", "", MaxReq)

post_courses ==
  \E body \in CourseBodies :
    Arrive("POST /api/courses", "", body, "", MissingCourses(body), MaxReq)

put_courses ==
  \E id \in CourseIds, body \in CourseUpdates :
    Arrive("PUT /api/courses/:id", id, body, "", "", MaxReq)

get_courses ==
  \E id \in CourseIds : Arrive("GET /api/courses/:id", id, Null, "", "", MaxReq)

post_notes ==
  \E body \in NoteBodies :
    Arrive("POST /api/notes", "", body, "", MissingNotes(body), MaxReq)

put_notes ==
  \E id \in NoteIds, body \in NoteEdits :
    Arrive("PUT /api/notes/:id", id, body, "", "", MaxReq)

delete_notes ==
  \E id \in NoteIds, body \in NoteDeletes :
    Arrive("DELETE /api/notes/:id", id, body, "", "", MaxReq)

post_rate ==
  \E id \in NoteIds, body \in Ratings :
    Arrive("POST /api/notes/:id/rate", id, body, "", MissingRate(body), MaxReq)

post_signup ==
  \E body \in Signups :
    Arrive("POST /api/auth/signup", "", body, "", MissingSignup(body), MaxReq)

(* ------------------ server: the handler after db.read() ---------------- *)

Reqs == 1..Len(reqs)

\* a server that reads and writes in one step: the handler sees the disk
DocumentOnDisk(r) == file

\* db.data after the handler's own await db.read(): the document it fetched
Document(r) == reqs[r].data

handle_get_data ==
  \E r \in Reqs : Handle(r, "GET /api/data", GetData(Document(r)))

handle_post_courses ==
  \E r \in Reqs :
    Handle(r, "POST /api/courses", PostCourses(reqs[r].body, Document(r), nanoid(r)))

handle_put_courses ==
  \E r \in Reqs :
    Handle(r, "PUT /api/courses/:id", PutCourses(reqs[r].id, reqs[r].body, Document(r)))

handle_get_courses ==
  \E r \in Reqs :
    Handle(r, "GET /api/courses/:id", GetCourses(reqs[r].id, Document(r)))

handle_post_notes ==
  \E r \in Reqs :
    Handle(r, "POST /api/notes", PostNotes(reqs[r].body, Document(r), nanoid(r)))

handle_put_notes ==
  \E r \in Reqs :
    Handle(r, "PUT /api/notes/:id", PutNotes(reqs[r].id, reqs[r].body, Document(r)))

handle_delete_notes ==
  \E r \in Reqs :
    Handle(r, "DELETE /api/notes/:id", DeleteNotes(reqs[r].id, reqs[r].body, Document(r)))

handle_post_rate ==
  \E r \in Reqs :
    Handle(r, "POST /api/notes/:id/rate", PostRate(reqs[r].id, reqs[r].body, Document(r)))

handle_post_signup ==
  \E r \in Reqs :
    Handle(r, "POST /api/auth/signup", PostSignup(reqs[r].body, Document(r), nanoid(r)))

(* ------------------------- client sync helpers ------------------------ *)

\* JSON.stringify / JSON.parse of the cache object
Stringify(value) == [json |-> value]
Parse(text) == text.json

\* res.ok
Ok(r) == reqs[r].status >= 200 /\ reqs[r].status <= 299

\* a helper's fetch has resolved and the helper has not yet continued
Resumes(r, helper) == reqs[r].helper = helper /\ reqs[r].pc = "answered"

\* the helper ends: it returns, or it throws
Ends(r, outcome) == reqs' = [reqs EXCEPT ![r].pc = "done", ![r].outcome = outcome]

\* throw new Error(err.error || ...), or a TypeError on an undefined cache
Throws(r) == Ends(r, "threw") /\ UNCHANGED <<appData, mirror>>

\* window.appData = next; localStorage.setItem('apExamAppData', JSON.stringify(window.appData))
Merges(r, next) ==
  /\ appData' = next
  /\ mirror' = Stringify(next)
  /\ Ends(r, "returned")

\* a slip: the catch block leaves the cache alone
LoadRemoteDataNoFallback(ok, data, cache, saved) ==
  IF ok
  THEN LET next == [courses |-> data.courses, communityNotes |-> data.communityNotes,
                    users |-> data.users, analytics |-> data.analytics]
       IN [appData |-> next, mirror |-> Stringify(next)]
  ELSE [appData |-> cache, mirror |-> saved]

\* loadRemoteData: the part after a fetch that resolved, and the catch block
LoadRemoteData(ok, data, cache, saved) ==
  IF ok
  THEN LET next == [courses |-> data.courses, communityNotes |-> data.communityNotes,
                    users |-> data.users, analytics |-> data.analytics]
       IN [appData |-> next, mirror |-> Stringify(next)]
  ELSE [appData |-> IF saved # Null THEN Parse(saved) ELSE cache, mirror |-> saved]

\* createRemoteNote: window.appData.communityNotes.push(note)
CreateRemoteNote(note, cache) ==
  [cache EXCEPT !.communityNotes = Append(@, note)]

\* editRemoteNote: replace the cached note that has the returned note's id
EditRemoteNote(note, cache) ==
  LET idx == FindIndex([i \in DOMAIN cache.communityNotes |-> cache.communityNotes[i].id = note.id])
  IN IF idx # 0 THEN [cache EXCEPT !.communityNotes[idx] = note] ELSE cache

\* deleteRemoteNote: drop the cached notes with the id that was asked for
DeleteRemoteNote(noteId, cache) ==
  LET Other(n) == n.id # noteId
  IN [cache EXCEPT !.communityNotes = SelectSeq(@, Other)]

\* a slip: a rating the cache already holds for the user is kept
RateRemoteNoteKeepsEntry(noteId, userId, rating, data, cache) ==
  LET idx == FindIndex([i \in DOMAIN cache.communityNotes |-> cache.communityNotes[i].id = noteId])
  IN IF idx = 0 THEN cache
     ELSE IF \E x \in Range(cache.communityNotes[idx].ratings) : x.userId = userId
          THEN cache
          ELSE [cache EXCEPT
                  !.communityNotes[idx].averageRating = data.averageRating,
                  !.communityNotes[idx].ratings = Upsert(@, userId, rating)]

\* rateRemoteNote: copy the answer's average, upsert the rating that was sent
RateRemoteNote(noteId, userId, rating, data, cache) ==
  LET idx == FindIndex([i \in DOMAIN cache.communityNotes |-> cache.communityNotes[i].id = noteId])
  IN IF idx = 0 THEN cache
     ELSE [cache EXCEPT
             !.communityNotes[idx].averageRating = data.averageRating,
             !.communityNotes[idx].ratings = Upsert(@, userId, rating)]

\* createRemoteCourse: window.appData.courses.push(course)
CreateRemoteCourse(course, cache) ==
  [cache EXCEPT !.courses = Append(@, course)]

\* editRemoteCourse: replace the cached course that has the returned course's id
EditRemoteCourse(course, cache) ==
  LET idx == FindIndex([i \in DOMAIN cache.courses |-> cache.courses[i].id = course.id])
  IN IF idx # 0 THEN [cache EXCEPT !.courses[idx] = course] ELSE cache

(* ----------------------- client: a helper is called -------------------- *)

\* fetch() rejects when the server cannot be reached
loadRemoteData ==
  \/ Arrive("GET /api/data", "", Null, "loadRemoteData", "", MaxCalls)
  \/ /\ Len(reqs) < MaxCalls
     /\ reqs' = Append(reqs,
           [op |-> "GET /api/data", id |-> "", body |-> Null, helper |-> "loadRemoteData",
            pc |-> "answered", data |-> Null, status |-> 0, res |-> Null, outcome |-> ""])
     /\ UNCHANGED <<file, wq, appData, mirror>>

createRemoteNote ==
  \E a \in {"u1", "zz"} :
    LET body == [courseId |-> "c1", title |-> "T", content |-> "C", authorId |-> a]
    IN Arrive("POST /api/notes", "", body, "createRemoteNote", MissingNotes(body), MaxCalls)

editRemoteNote ==
  \E a \in {"u1", "u2"} :
    Arrive("PUT /api/notes/:id", "n1",
           [content |-> "", title |-> "T2", authorId |-> a, forceDev |-> FALSE],
           "editRemoteNote", "", MaxCalls)

deleteRemoteNote ==
  Arrive("DELETE /api/notes/:id", "n1", [authorId |-> "u1", forceDev |-> FALSE],
         "deleteRemoteNote", "", MaxCalls)

rateRemoteNote ==
  \E n \in {3, 5} :
    LET body == [userId |-> "u1", rating |-> n]
    IN Arrive("POST /api/notes/:id/rate", "n1", body, "rateRemoteNote",
              MissingRate(body), MaxCalls)

createRemoteCourse ==
  LET body == [title |-> "T", description |-> "D"]
  IN Arrive("POST /api/courses", "", body, "createRemoteCourse", MissingCourses(body), MaxCalls)

editRemoteCourse ==
  \E updates \in {[id |-> "c2"], [id |-> "zz"], [title |-> "T2"]} :
    Arrive("PUT /api/courses/:id", "c1", updates, "editRemoteCourse", "", MaxCalls)

(* -------------------- client: the helper after its fetch --------------- *)

return_loadRemoteData ==
  \E r \in Reqs :
    /\ Resumes(r, "loadRemoteData")
    /\ LET out == LoadRemoteData(Ok(r), reqs[r].res, appData, mirror)
       IN /\ appData' = out.appData
          /\ mirror' = out.mirror
    /\ Ends(r, "returned")
    /\ UNCHANGED <<file, wq>>

\* the helpers that merge: throw on an answer that is not ok, and on an
\* undefined window.appData (a TypeError), else merge and mirror
Return(r, helper, next) ==
  /\ Resumes(r, helper)
  /\ IF ~Ok(r) \/ appData = Null THEN Throws(r) ELSE Merges(r, next)
  /\ UNCHANGED <<file, wq>>

return_createRemoteNote ==
  \E r \in Reqs :
    Return(r, "createRemoteNote", CreateRemoteNote(reqs[r].res, appData))

return_editRemoteNote ==
  \E r \in Reqs :
    Return(r, "editRemoteNote", EditRemoteNote(reqs[r].res, appData))

return_deleteRemoteNote ==
  \E r \in Reqs :
    Return(r, "deleteRemoteNote", DeleteRemoteNote(reqs[r].id, appData))

return_rateRemoteNote ==
  \E r \in Reqs :
    Return(r, "rateRemoteNote",
           RateRemoteNote(reqs[r].id, reqs[r].body.userId, reqs[r].body.rating,
                          reqs[r].res, appData))

return_createRemoteCourse ==
  \E r \in Reqs :
    Return(r, "createRemoteCourse", CreateRemoteCourse(reqs[r].res, appData))

return_editRemoteCourse ==
  \E r \in Reqs :
    Return(r, "editRemoteCourse", EditRemoteCourse(reqs[r].res, appData))

(* --------------------------- specification ----------------------------- *)

Init ==
  /\ file \in {EmptyDb, UsedDb}
  /\ wq = <<>>
  /\ reqs = <<>>
  /\ appData = Null
  /\ mirror = Null

Next ==
  \/ get_data \/ handle_get_data
  \/ post_courses \/ handle_post_courses
  \/ put_courses \/ handle_put_courses
  \/ get_courses \/ handle_get_courses
  \/ post_notes \/ handle_post_notes
  \/ put_notes \/ handle_put_notes
  \/ delete_notes \/ handle_delete_notes
  \/ post_rate \/ handle_post_rate
  \/ post_signup \/ handle_post_signup
  \/ persist

Spec == Init /\ [][Next]_vars

\* the snapshot of a first start, mirrored by an earlier session
OldMirror ==
  Stringify([courses |-> SeedCourses, communityNotes |-> <<>>, users |-> <<>>,
             analytics |-> [sessions |-> <<>>]])

\* what loadRemoteData() at page start made of the document on disk
Loaded == LoadRemoteData(TRUE, GetData(UsedDb).body, Null, Null)

\* one browser page against the server: window.appData is not set yet (with
\* or without a mirror of an earlier session), or it was loaded at page start
InitClient ==
  /\ file = UsedDb
  /\ wq = <<>>
  /\ reqs = <<>>
  /\ \E start \in {[appData |-> Null, mirror |-> Null],
                    [appData |-> Null, mirror |-> OldMirror],
                    Loaded} :
       appData = start.appData /\ mirror = start.mirror

NextClient ==
  \/ loadRemoteData \/ handle_get_data \/ return_loadRemoteData
  \/ createRemoteNote \/ handle_post_notes \/ return_createRemoteNote
  \/ editRemoteNote \/ handle_put_notes \/ return_editRemoteNote
  \/ deleteRemoteNote \/ handle_delete_notes \/ return_deleteRemoteNote
  \/ rateRemoteNote \/ handle_post_rate \/ return_rateRemoteNote
  \/ createRemoteCourse \/ handle_post_courses \/ return_createRemoteCourse
  \/ editRemoteCourse \/ handle_put_courses \/ return_editRemoteCourse
  \/ persist

SpecClient == InitClient /\ [][NextClient]_vars

(* ======================= properties of the store ======================= *)

\* the notes of a document that carry an id
NotesOf(data, id) == { n \in Range(data.communityNotes) : n.id = id }

Raters(note) == { x.userId : x \in Range(note.ratings) }

\* request r has run its handler past db.read()
Handled(r, op) ==
  reqs[r].op = op /\ reqs[r].pc \in {"write", "answered", "done"} /\ reqs[r].data # Null

\* request r was answered 200 and its write is on disk
Succeeded(r, op) ==
  reqs[r].op = op /\ reqs[r].pc \in {"answered", "done"} /\ reqs[r].status = 200

\* the documents whose write request r has pending
Pending(r) == { wq[i].data : i \in { j \in 1..Len(wq) : wq[j].r = r } }

\* C1: a note's ratings hold at most one entry per userId, in every
\* document on disk; a rating request whose user already has an entry
\* leaves the number of entries as it was, the user's entry carries the
\* submitted value, and ratingsCount is the number of distinct raters.
C1_OneRatingPerUser ==
  /\ \A n \in Range(file.communityNotes) :
       \A i, j \in 1..Len(n.ratings) :
         n.ratings[i].userId = n.ratings[j].userId => i = j
  /\ \A r \in Reqs :
       reqs[r].op = "POST /api/notes/:id/rate" /\ reqs[r].pc = "write" =>
         \A data \in Pending(r) :
           \A before \in NotesOf(reqs[r].data, reqs[r].id) :
             \E after \in NotesOf(data, reqs[r].id) :
               /\ Raters(after) = Raters(before) \cup {reqs[r].body.userId}
               /\ Len(after.ratings) = Cardinality(Raters(after))
               /\ reqs[r].body.userId \in Raters(before) =>
                    Len(after.ratings) = Len(before.ratings)
               /\ \E x \in Range(after.ratings) :
                    x.userId = reqs[r].body.userId /\ x.rating = reqs[r].body.rating
               /\ reqs[r].res.ratingsCount = Cardinality(Raters(after))

\* a re-submission: the user had an entry with another value in the document read
C1_Resubmitted ==
  \E r \in Reqs :
    /\ reqs[r].op = "POST /api/notes/:id/rate" /\ reqs[r].pc = "write"
    /\ \E before \in NotesOf(reqs[r].data, reqs[r].id) :
         \E x \in Range(before.ratings) :
           x.userId = reqs[r].body.userId /\ x.rating # reqs[r].body.rating

\* C2: on disk, a note's averageRating times the number of its ratings is
\* the sum of its rating values; a request's answer carries the average of
\* the note it wrote; rating 3 by the user whose 5 is the only entry is
\* answered averageRating 3, ratingsCount 1.
C2_AverageIsMean ==
  /\ \A n \in Range(file.communityNotes) :
       /\ n.averageRating.den > 0
       /\ n.averageRating.num * Len(n.ratings) = Total(n.ratings) * n.averageRating.den
  /\ \A r \in Reqs :
       Handled(r, "POST /api/notes/:id/rate") /\ reqs[r].status = 200 =>
         /\ \A data \in Pending(r) : \A n \in NotesOf(data, reqs[r].id) :
              /\ n.averageRating = reqs[r].res.averageRating
              /\ n.averageRating.den > 0
              /\ n.averageRating.num * Len(n.ratings) = Total(n.ratings) * n.averageRating.den
         /\ \A before \in NotesOf(reqs[r].data, reqs[r].id) :
              /\ before.ratings = <<[userId |-> reqs[r].body.userId, rating |-> 5]>>
              /\ reqs[r].body.rating = 3
              => reqs[r].res = [averageRating |-> [num |-> 3, den |-> 1], ratingsCount |-> 1]

\* rating 5 then rating 3 by the same user, both on disk in turn
C2_FiveThenThree ==
  \E r \in Reqs :
    /\ Succeeded(r, "POST /api/notes/:id/rate")
    /\ reqs[r].body.rating = 3
    /\ \E before \in NotesOf(reqs[r].data, reqs[r].id) :
         before.ratings = <<[userId |-> reqs[r].body.userId, rating |-> 5]>>
    /\ \E n \in NotesOf(file, reqs[r].id) :
         n.ratings = <<[userId |-> reqs[r].body.userId, rating |-> 3]>>

\* an edit or a delete of a note the document holds, by another author, no bypass
Forbidden(r) ==
  /\ reqs[r].op \in {"PUT /api/notes/:id", "DELETE /api/notes/:id"}
  /\ reqs[r].data # Null
  /\ ~reqs[r].body.forceDev
  /\ \E n \in NotesOf(reqs[r].data, reqs[r].id) : n.authorId # reqs[r].body.authorId

\* C3: the handler of an edit or a delete by a non-author without the
\* bypass flag answers 403 and leaves the file and the pending writes as
\* they are (so every note keeps its title, content, ratings and average);
\* the request never has a write pending.
C3_ForbiddenChangesNothing ==
  /\ [][\A r \in Reqs :
          Forbidden(r) /\ reqs[r].pc = "read" /\ reqs'[r].pc # "read" =>
            /\ reqs'[r].status = 403
            /\ reqs'[r].pc = "answered"
            /\ file' = file
            /\ wq' = wq]_vars
  /\ [](\A r \in Reqs : Forbidden(r) => Pending(r) = {} /\ reqs[r].pc # "write")

\* an edit and a delete were both refused, the note is on disk as it was
C3_BothRefused ==
  /\ \E r \in Reqs :
       Forbidden(r) /\ reqs[r].op = "PUT /api/notes/:id" /\ reqs[r].status = 403
  /\ \E r \in Reqs :
       Forbidden(r) /\ reqs[r].op = "DELETE /api/notes/:id" /\ reqs[r].status = 403
  /\ file = UsedDb

UserIds(data) == { u.id : u \in Range(data.users) }

\* C4: a POST /api/notes whose authorId is no user's id in the document
\* read (or is missing) is answered 400 and its note never reaches the
\* disk; every note on disk has the id of a user on disk as authorId.
C4_AuthorsExist ==
  /\ \A n \in Range(file.communityNotes) : n.authorId \in UserIds(file)
  /\ \A r \in Reqs :
       /\ reqs[r].op = "POST /api/notes"
       /\ reqs[r].pc # "read"
       /\ reqs[r].data # Null => reqs[r].body.authorId \notin UserIds(reqs[r].data)
       => /\ reqs[r].status = 400
          /\ reqs[r].pc = "answered"
          /\ Pending(r) = {}
          /\ NotesOf(file, nanoid(r)) = {}

\* one note was refused for its author while another was created and is on disk
C4_RefusedAndCreated ==
  /\ \E r \in Reqs :
       reqs[r].op = "POST /api/notes" /\ reqs[r].res = Error("Invalid author")
  /\ \E r \in Reqs :
       Succeeded(r, "POST /api/notes") /\ NotesOf(file, nanoid(r)) # {}

\* C5: a signup whose e-mail a user of the document read holds is answered
\* 400 "Email exists" and its user never reaches the disk; no two users on
\* disk share an e-mail.
C5_EmailsUnique ==
  /\ \A i, j \in 1..Len(file.users) :
       file.users[i].email = file.users[j].email => i = j
  /\ \A r \in Reqs :
       /\ Handled(r, "POST /api/auth/signup")
       /\ \E u \in Range(reqs[r].data.users) : u.email = reqs[r].body.email
       => /\ reqs[r].status = 400
          /\ reqs[r].res = Error("Email exists")
          /\ reqs[r].pc = "answered"
          /\ Pending(r) = {}
          /\ nanoid(r) \notin UserIds(file)

\* a signup is on disk and a second signup with its e-mail was refused
C5_SecondSignupRefused ==
  \E a, b \in Reqs :
    /\ Succeeded(a, "POST /api/auth/signup")
    /\ nanoid(a) \in UserIds(file)
    /\ Handled(b, "POST /api/auth/signup")
    /\ reqs[b].body.email = reqs[a].body.email
    /\ reqs[b].res = Error("Email exists")

\* C6 (as claimed): course ids are unique in the document on disk, and a
\* GET /api/courses/:id finds one course with the id it asks for.
C6_CourseIdsUnique ==
  /\ \A i, j \in 1..Len(file.courses) :
       file.courses[i].id = file.courses[j].id => i = j
  /\ \A r \in Reqs :
       Handled(r, "GET /api/courses/:id") /\ reqs[r].status = 200 =>
         Cardinality({ i \in 1..Len(reqs[r].data.courses) :
                         reqs[r].data.courses[i].id = reqs[r].id }) = 1

Creates == {"POST /api/courses", "POST /api/notes", "POST /api/auth/signup"}

\* what a create request appended is in the document on disk
OnDisk(r) ==
  CASE reqs[r].op = "POST /api/courses" -> reqs[r].res \in Range(file.courses)
    [] reqs[r].op = "POST /api/notes" -> NotesOf(file, nanoid(r)) # {}
    [] reqs[r].op = "POST /api/auth/signup" -> nanoid(r) \in UserIds(file)

\* C7: two create requests that were both answered 200 and whose db.read()
\* fetched the same document are never both on disk: the later write
\* replaces the whole document and with it the earlier request's entry.
C7_SameReadNeverBoth ==
  \A a, b \in Reqs :
    /\ a # b
    /\ reqs[a].op \in Creates /\ reqs[b].op \in Creates
    /\ reqs[a].status = 200 /\ reqs[b].status = 200
    /\ reqs[a].pc = "answered" /\ reqs[b].pc = "answered"
    /\ reqs[a].data = reqs[b].data
    => ~(OnDisk(a) /\ OnDisk(b))

\* two POST /api/courses were answered 200, no write is pending, and the
\* file holds the course of the second only
C7_LostUpdate ==
  \E a, b \in Reqs :
    /\ Succeeded(a, "POST /api/courses") /\ Succeeded(b, "POST /api/courses")
    /\ wq = <<>>
    /\ ~OnDisk(a)
    /\ OnDisk(b)
    /\ Len(file.courses) = Len(SeedCourses) + 1

(* ======================= properties of the client ====================== *)

\* helper r continues after its fetch in this step
Returning(r, helper) ==
  reqs[r].helper = helper /\ reqs[r].pc = "answered" /\ reqs'[r].pc = "done"

\* the cache collection a helper's entity belongs to
Collection(helper) ==
  IF helper \in {"createRemoteNote", "editRemoteNote"} THEN "communityNotes" ELSE "courses"

\* C8 (as claimed): when createRemoteNote, editRemoteNote,
\* createRemoteCourse or editRemoteCourse returns, window.appData and the
\* mirror 'apExamAppData' both hold an entry equal to the entity the server
\* returned.
C8_ReturnedEntityIsCached ==
  [][\A r \in Reqs :
       \A helper \in {"createRemoteNote", "editRemoteNote",
                       "createRemoteCourse", "editRemoteCourse"} :
         Returning(r, helper) /\ reqs'[r].outcome = "returned" =>
           /\ reqs[r].res \in Range(appData'[Collection(helper)])
           /\ mirror' # Null
           /\ reqs[r].res \in Range(Parse(mirror')[Collection(helper)])]_vars

\* C9: when loadRemoteData ends after a fetch that succeeded, the cache is
\* the answer's courses, communityNotes, users and analytics and nothing
\* else, and the mirror holds the cache; when the fetch failed, the cache is
\* the mirrored snapshot if there is one and unchanged if not, and the
\* mirror is as it was.
C9_LoadDecidesCache ==
  [][\A r \in Reqs :
       Returning(r, "loadRemoteData") =>
         IF reqs[r].status = 200
         THEN /\ DOMAIN appData' = {"courses", "communityNotes", "users", "analytics"}
              /\ appData'.courses = reqs[r].res.courses
              /\ appData'.communityNotes = reqs[r].res.communityNotes
              /\ appData'.users = reqs[r].res.users
              /\ appData'.analytics = reqs[r].res.analytics
              /\ appData'.courses = reqs[r].data.courses
              /\ appData'.communityNotes = reqs[r].data.communityNotes
              /\ mirror' # Null
              /\ Parse(mirror') = appData'
         ELSE /\ mirror' = mirror
              /\ appData' = IF mirror # Null THEN Parse(mirror) ELSE appData]_vars

\* a load failed (the cache fell back to the mirror, if any), a second load
\* succeeded and the cache and the mirror are the server's document
C9_FellBackThenLoaded ==
  /\ Len(reqs) >= 2
  /\ reqs[1].helper = "loadRemoteData" /\ reqs[1].pc = "done" /\ reqs[1].status = 0
  /\ reqs[2].helper = "loadRemoteData" /\ reqs[2].pc = "done" /\ reqs[2].status = 200
  /\ mirror # Null
  /\ appData = Parse(mirror)
  /\ appData # Parse(OldMirror)
  /\ appData.communityNotes = file.communityNotes

\* the rating a note of a document holds for a user
RatingsBy(data, id, userId) ==
  { x.rating : x \in UNION { { y \in Range(n.ratings) : y.userId = userId } :
                              n \in NotesOf(data, id) } }

\* C10: a rateRemoteNote that returns writes its own answer into the cached
\* note, whatever the server holds by then: the cached averageRating is the
\* answer's and the cached rating of the user is the one this call sent.
C10_LastResponseWins ==
  [][\A r \in Reqs :
       /\ Returning(r, "rateRemoteNote")
       /\ reqs'[r].outcome = "returned"
       /\ NotesOf(appData, reqs[r].id) # {}
       => /\ \A n \in NotesOf(appData', reqs[r].id) :
               n.averageRating = reqs[r].res.averageRating
          /\ RatingsBy(appData', reqs[r].id, reqs[r].body.userId) = {reqs[r].body.rating}]_vars

\* two rateRemoteNote calls for one note and user have both returned, no
\* write is pending; the server holds the rating and average of the call it
\* handled last, the cache those of the other call
C10_CacheDisagrees ==
  \E a, b \in Reqs :
    /\ a # b
    /\ reqs[a].helper = "rateRemoteNote" /\ reqs[b].helper = "rateRemoteNote"
    /\ reqs[a].outcome = "returned" /\ reqs[b].outcome = "returned"
    /\ reqs[a].id = reqs[b].id /\ reqs[a].body.userId = reqs[b].body.userId
    /\ reqs[a].body.rating # reqs[b].body.rating
    /\ wq = <<>>
    /\ RatingsBy(file, reqs[a].id, reqs[a].body.userId) = {reqs[b].body.rating}
    /\ RatingsBy(appData, reqs[a].id, reqs[a].body.userId) = {reqs[a].body.rating}
    /\ \E n \in NotesOf(file, reqs[a].id), m \in NotesOf(appData, reqs[a].id) :
         n.averageRating # m.averageRating

====
